---------------------------- MODULE Spec2Model ----------------------------
(***************************************************************************)
(* Setup keys of the management server (management/server/setupkey.go):   *)
(* the SetupKey value object, its validity predicates, and the lifecycle  *)
(* operations CreateSetupKey / SaveSetupKey / DeleteSetupKey of the       *)
(* DefaultAccountManager, run by concurrent callers against one store.    *)
(***************************************************************************)
EXTENDS Integers, Sequences, FiniteSets, TLC

VARIABLES
    store,      \* persisted SetupKeys of the existing account: collection key -> record
    lock,       \* account id -> holder of the account's write lock ("" when free)
    now,        \* the wall clock read by time.Now()
    issued,     \* plaintext secrets uuid.New() has produced so far
    nops,     \* number of operations the environment has started so far
    pc,         \* caller -> position inside its current call
    call,       \* caller -> arguments of its current call
    account,    \* caller -> the account object returned to it by GetAccount
    oldKey,     \* caller -> SaveSetupKey's oldKey / DeleteSetupKey's deletedSetupKey
    ret,        \* caller -> error and record returned by its current call
    emitted,    \* caller -> events its current call handed to StoreEvent, in order
    lastSave,   \* history: payload of the last successful SaveSetupKey, while
                \* nothing else has written the stored keys since
    deleted     \* history: collection keys of the records that a DeleteSetupKey
                \* which returned success has removed

vars == <<store, lock, now, issued, nops, pc, call, account, oldKey, ret, emitted, lastSave, deleted>>

-----------------------------------------------------------------------------
(* Bounds of the model *)

\* operations of the environment in one behaviour: calls of CreateSetupKey,
\* SaveSetupKey and DeleteSetupKey, enrollments, and ticks of the clock
MaxOps == 3

\* longest plaintext, in characters, and largest mask length that hiddenKey is
\* called with on its own
MaxKeyLen == 7
MaxMask == 8

-----------------------------------------------------------------------------
(* Constants of the program *)

SetupKeyReusable == "reusable"
SetupKeyOneOff == "one-off"
SetupKeyUnlimitedUsage == 0
HiddenKeyLength == 4

ZeroTime == 0       \* time.Time{}: IsZero() holds of it and of no clock reading

Procs == {"p1", "p2"}

\* the values uuid.New() can return (0 is the secret of the key stored at start)
Secrets == {1, 2}

AccountIDs == {"acc1", "acc2"}
ExistingAccounts == {"acc1"}

\* account.Groups of acc1: group id -> group name
Groups == [g \in {"g1", "g2", "g3", "gAll"} |->
             CASE g = "g1" -> "dev" [] g = "g2" -> "ops" [] g = "g3" -> "qa" [] OTHER -> "All"]

\* users known to the store: id -> account and role
\* (admin: user.IsAdminOrServiceUser())
Users == [u \in {"admin1", "user1", "admin2"} |->
            CASE u = "admin1" -> [AccountID |-> "acc1", admin |-> TRUE]
              [] u = "user1"  -> [AccountID |-> "acc1", admin |-> FALSE]
              [] OTHER        -> [AccountID |-> "acc2", admin |-> TRUE]]

None == << >>
Some(x) == <<x>>

Range(s) == {s[i] : i \in 1..Len(s)}

-----------------------------------------------------------------------------
(* Key codec *)

\* sha256.Sum256 followed by base64: one-way and collision-free on the secrets
\* of the model; digests and secrets are values of the same kind (strings in
\* the program, numbers here), so a stored Key can be compared with a secret.
Digest(plain) == 100 + plain

\* fnv 32-bit hash of the secret: not injective (here: two ids)
Hash(plain) == plain % 2

\* strconv.Itoa(int(Hash(key)))
IdOf(plain) == Hash(plain)

\* A string is the sequence of its characters (runes). In UTF-8 a character
\* takes one byte, written as the character itself, except "é", which takes
\* the two bytes "é/1" and "é/2".
Utf8(r) == IF r = "é" THEN <<"é/1", "é/2">> ELSE <<r>>

\* len(s): the number of bytes of a string
ByteLen(s) == Len(s) + Cardinality({i \in 1..Len(s) : Len(Utf8(s[i])) = 2})

\* the first n bytes of the characters of s from position i on
RECURSIVE BytesFrom(_, _, _)
BytesFrom(s, i, n) ==
    IF n <= 0 \/ i > Len(s) THEN << >>
    ELSE IF Len(Utf8(s[i])) <= n
            THEN Utf8(s[i]) \o BytesFrom(s, i + 1, n - Len(Utf8(s[i])))
            ELSE SubSeq(Utf8(s[i]), 1, n)

\* s[0:n], for n <= len(s)
Slice(s, n) == BytesFrom(s, 1, n)

\* strings.Repeat("*", n)
Stars(n) == [i \in 1..n |-> "*"]

\* what a Go run-time panic leaves in place of a result
Panic == "panic"

\* number of characters of a uuid in its canonical form
UuidLength == 36

\* the canonical form of a uuid: groups of hexadecimal digits separated by "-"
UuidForm == [i \in 1..UuidLength |-> IF i \in {9, 14, 19, 24} THEN "-" ELSE "0"]

\* strings.ToUpper(uuid.New().String()) for the secret numbered plain
Token(plain) == [UuidForm EXCEPT ![1] = ToString(plain)]

\* hiddenKey(key, length): the result as a sequence of bytes. key[0:5] slices
\* bytes and panics on a key shorter than 5 bytes; strings.Repeat panics on a
\* negative count
hiddenKey(key, length) ==
    IF ByteLen(key) < 5 THEN Panic
    ELSE LET prefix == Slice(key, 5)
             n == IF length > Len(key) THEN Len(key) - Len(prefix) ELSE length
         IN  IF n < 0 THEN Panic ELSE prefix \o Stars(n)

-----------------------------------------------------------------------------
(* SetupKey *)

\* Copy as seen by the caller: the returned object
Copy(key) ==
    [key EXCEPT !.UpdatedAt = IF key.UpdatedAt = ZeroTime THEN key.CreatedAt ELSE @]

\* Copy as seen by the receiver: key.UpdatedAt is assigned when it is zero
CopyReceiver(key) ==
    [key EXCEPT !.UpdatedAt = IF key.UpdatedAt = ZeroTime THEN key.CreatedAt ELSE @]

IncrementUsage(key, t) ==
    [Copy(key) EXCEPT !.UsedTimes = @ + 1, !.LastUsed = t]

IsRevoked(key) == key.Revoked

IsExpired_atExpiry(key, t) ==
    IF key.ExpiresAt = ZeroTime THEN FALSE ELSE t >= key.ExpiresAt

IsExpired(key, t) ==
    IF key.ExpiresAt = ZeroTime THEN FALSE ELSE t > key.ExpiresAt

IsOverUsed_strict(key) ==
    LET limit == IF key.Type = SetupKeyOneOff THEN 1 ELSE key.UsageLimit
    IN  limit > 0 /\ key.UsedTimes > limit

IsOverUsed(key) ==
    LET limit == IF key.Type = SetupKeyOneOff THEN 1 ELSE key.UsageLimit
    IN  limit > 0 /\ key.UsedTimes >= limit

IsValid_unrevoked(key, t) == ~IsExpired(key, t) /\ ~IsOverUsed(key)

IsValid(key, t) == ~IsRevoked(key) /\ ~IsExpired(key, t) /\ ~IsOverUsed(key)

GenerateSetupKey_nolimit(name, t, validFor, autoGroups, usageLimit, ephemeral, plain, time) ==
    [ Id         |-> IdOf(plain),
      AccountID  |-> "",
      Key        |-> Digest(plain),
      KeySecret  |-> hiddenKey(Token(plain), HiddenKeyLength),
      Name       |-> name,
      Type       |-> t,
      CreatedAt  |-> time[2],
      ExpiresAt  |-> IF validFor # 0 THEN time[1] + validFor ELSE ZeroTime,
      UpdatedAt  |-> time[3],
      Revoked    |-> FALSE,
      UsedTimes  |-> 0,
      LastUsed   |-> ZeroTime,
      AutoGroups |-> autoGroups,
      UsageLimit |-> usageLimit,
      Ephemeral  |-> ephemeral ]

\* plain is the value of uuid.New(); time holds the readings of time.Now(), in
\* the order of the calls: for expiresAt, for CreatedAt and for UpdatedAt
GenerateSetupKey(name, t, validFor, autoGroups, usageLimit, ephemeral, plain, time) ==
    [ Id         |-> IdOf(plain),
      AccountID  |-> "",
      Key        |-> Digest(plain),
      KeySecret  |-> hiddenKey(Token(plain), HiddenKeyLength),
      Name       |-> name,
      Type       |-> t,
      CreatedAt  |-> time[2],
      ExpiresAt  |-> IF validFor # 0 THEN time[1] + validFor ELSE ZeroTime,
      UpdatedAt  |-> time[3],
      Revoked    |-> FALSE,
      UsedTimes  |-> 0,
      LastUsed   |-> ZeroTime,
      AutoGroups |-> autoGroups,
      UsageLimit |-> IF t = SetupKeyOneOff THEN 1 ELSE usageLimit,
      Ephemeral  |-> ephemeral ]

\* the loop of validateSetupKeyAutoGroups from position i on: "" is the nil error
RECURSIVE validateFrom(_, _)
validateFrom(autoGroups, i) ==
    IF i > Len(autoGroups) THEN ""
    ELSE IF autoGroups[i] \notin DOMAIN Groups THEN "NotFound:group"
    ELSE IF Groups[autoGroups[i]] = "All" THEN "InvalidArgument:All"
    ELSE validateFrom(autoGroups, i + 1)

validateSetupKeyAutoGroups_allFirst(autoGroups) ==
    IF \E i \in 1..Len(autoGroups) :
          autoGroups[i] \in DOMAIN Groups /\ Groups[autoGroups[i]] = "All"
       THEN "InvalidArgument:All"
    ELSE IF \E i \in 1..Len(autoGroups) : autoGroups[i] \notin DOMAIN Groups
       THEN "NotFound:group"
    ELSE ""

validateSetupKeyAutoGroups(autoGroups) == validateFrom(autoGroups, 1)

\* difference(a, b): the elements of a that are not in b, in the order of a
difference(a, b) == SelectSeq(a, LAMBDA x : x \notin Range(b))

\* account.GetGroup(g) # nil
GroupResolves(g) == g \in DOMAIN Groups

-----------------------------------------------------------------------------
(* Inputs of the calls *)

Names == {"n1", "n2"}

\* CreateSetupKey requests: a reusable key with a limit and an expiry, a one-off
\* key requested with a limit other than 1, and two with an invalid group list
CreateRequests ==
    { [keyName |-> "n1", keyType |-> SetupKeyReusable, expiresIn |-> 1,
       autoGroups |-> << >>, usageLimit |-> 2, ephemeral |-> TRUE],
      [keyName |-> "n2", keyType |-> SetupKeyOneOff, expiresIn |-> 0,
       autoGroups |-> <<"g1", "g2">>, usageLimit |-> 2, ephemeral |-> FALSE],
      [keyName |-> "n1", keyType |-> SetupKeyReusable, expiresIn |-> 0,
       autoGroups |-> <<"g1", "gX", "gAll">>, usageLimit |-> SetupKeyUnlimitedUsage,
       ephemeral |-> FALSE] }

\* the fields of a SaveSetupKey payload that the handler reads
DesiredStates ==
    { [Name |-> "n1", AutoGroups |-> << >>, Revoked |-> FALSE],
      [Name |-> "n2", AutoGroups |-> <<"g2", "g1">>, Revoked |-> TRUE],
      [Name |-> "n1", AutoGroups |-> <<"g2", "gAll", "gX">>, Revoked |-> TRUE] }

\* ids a payload can carry: the two values of Hash and one that no key has
PayloadIds == {0, 1, 7}

\* a SaveSetupKey payload: the desired state under the id, and values in the
\* other fields that no stored record has
KeyToSave(id, d) ==
    [ Id         |-> id,
      AccountID  |-> "other",
      Key        |-> 999,
      KeySecret  |-> hiddenKey(Token(999), HiddenKeyLength),
      Name       |-> d.Name,
      Type       |-> "payload",
      CreatedAt  |-> 99,
      ExpiresAt  |-> 99,
      UpdatedAt  |-> 99,
      Revoked    |-> d.Revoked,
      UsedTimes  |-> 0,
      LastUsed   |-> 99,
      AutoGroups |-> d.AutoGroups,
      UsageLimit |-> 5,
      Ephemeral  |-> TRUE ]

\* the payloads of the calls: every desired state for the ids that keys can
\* have, one payload for the id that no key has, and nil
SavePayloads ==
    {Some(KeyToSave(id, d)) : id \in {0, 1}, d \in DesiredStates}
    \cup {Some(KeyToSave(7, d)) : d \in {x \in DesiredStates : x.AutoGroups = << >>}}
    \cup {None}

\* the record the store holds at start: a key of an earlier version of the
\* program, whose UpdatedAt was never written (secret 0, created at time 1)
LegacyKey ==
    [GenerateSetupKey("n1", SetupKeyReusable, 0, <<"g3", "g1">>, SetupKeyUnlimitedUsage,
                      FALSE, 0, <<1, 1, 1>>)
        EXCEPT !.UpdatedAt = ZeroTime]

NoCall == [op |-> "none"]
NoRet == [err |-> "", key |-> None]
NoAccount == [loaded |-> FALSE, SetupKeys |-> << >>]

-----------------------------------------------------------------------------
(* Collaborators: store, lock provider, audit sink *)

\* m[k] = v in a Go map
Put(m, k, v) == [x \in DOMAIN m \cup {k} |-> IF x = k THEN v ELSE m[x]]

\* AcquireWriteLockByUID returns once no other caller holds the account's lock
LockFree(accountID) == lock[accountID] = ""

\* collection keys of the records of keys whose Id is id
KeysById(keys, id) == {k \in DOMAIN keys : keys[k].Id = id}

\* the event StoreEvent receives
Event(activity, target, group) == [activity |-> activity, target |-> target, group |-> group]

RECURSIVE GroupEvents(_, _, _)
GroupEvents(activity, target, groups) ==
    IF groups = << >> THEN << >>
    ELSE (IF GroupResolves(Head(groups))
             THEN <<Event(activity, target, Head(groups))>> ELSE << >>)
         \o GroupEvents(activity, target, Tail(groups))

-----------------------------------------------------------------------------
Init ==
    /\ store = (Digest(0) :> LegacyKey)
    /\ lock = [a \in AccountIDs |-> ""]
    /\ now = 1
    /\ issued = {0}
    /\ nops = 0
    /\ pc = [p \in Procs |-> "idle"]
    /\ call = [p \in Procs |-> NoCall]
    /\ account = [p \in Procs |-> NoAccount]
    /\ oldKey = [p \in Procs |-> None]
    /\ ret = [p \in Procs |-> NoRet]
    /\ emitted = [p \in Procs |-> << >>]
    /\ lastSave = None
    /\ deleted = {}

-----------------------------------------------------------------------------
(* Callers *)

\* a call takes the first caller that is free
FirstFree(p) == pc[p] = "idle" /\ (p = "p1" \/ pc["p1"] # "idle")

InFlightCreates == {q \in Procs : call[q].op = "Create" /\ pc[q] \in {"lock", "load", "persist"}}

StartCreate(p) ==
    /\ FirstFree(p)
    /\ nops < MaxOps
    /\ Cardinality(issued) - 1 + Cardinality(InFlightCreates) < Cardinality(Secrets)
    /\ \E r \in CreateRequests, acc \in AccountIDs :
         /\ acc \in ExistingAccounts \/ r.autoGroups = << >>
         /\ call' = [call EXCEPT ![p] = [op |-> "Create", accountID |-> acc,
                                         userID |-> "admin1", req |-> r]]
    /\ pc' = [pc EXCEPT ![p] = "lock"]
    /\ nops' = nops + 1
    /\ UNCHANGED <<store, lock, now, issued, account, oldKey, ret, emitted, lastSave, deleted>>

StartSave(p) ==
    /\ FirstFree(p)
    /\ nops < MaxOps
    /\ \E k \in SavePayloads, acc \in AccountIDs :
         /\ acc \in ExistingAccounts \/ (k # None /\ k[1].Id = 0 /\ k[1].AutoGroups = << >>)
         /\ call' = [call EXCEPT ![p] = [op |-> "Save", accountID |-> acc,
                                         userID |-> "admin1", keyToSave |-> k]]
    /\ pc' = [pc EXCEPT ![p] = "lock"]
    /\ nops' = nops + 1
    /\ UNCHANGED <<store, lock, now, issued, account, oldKey, ret, emitted, lastSave, deleted>>

AcquireWriteLock_skipped(p) ==
    /\ pc[p] = "lock"
    /\ pc' = [pc EXCEPT ![p] = "load"]
    /\ UNCHANGED <<store, lock, now, issued, nops, call, account, oldKey, ret, emitted, lastSave, deleted>>

\* unlock := am.Store.AcquireWriteLockByUID(ctx, accountID)
AcquireWriteLock(p) ==
    /\ pc[p] = "lock"
    /\ LockFree(call[p].accountID)
    /\ lock' = [lock EXCEPT ![call[p].accountID] = p]
    /\ pc' = [pc EXCEPT ![p] = "load"]
    /\ UNCHANGED <<store, now, issued, nops, call, account, oldKey, ret, emitted, lastSave, deleted>>

\* where CreateSetupKey and SaveSetupKey go once the checks before the
\* mutation have produced err
AfterChecks(err) == IF err = "" THEN "persist" ELSE "ret"

\* CreateSetupKey from GetAccount to the end of validateSetupKeyAutoGroups
CreateLoad(p) ==
    /\ pc[p] = "load"
    /\ call[p].op = "Create"
    /\ LET err == IF call[p].accountID \notin ExistingAccounts THEN "NotFound:account"
                  ELSE validateSetupKeyAutoGroups(call[p].req.autoGroups)
       IN  /\ account' = [account EXCEPT ![p] =
                            IF call[p].accountID \in ExistingAccounts
                               THEN [loaded |-> TRUE, SetupKeys |-> store] ELSE @]
           /\ ret' = [ret EXCEPT ![p].err = err]
           /\ pc' = [pc EXCEPT ![p] = IF account'[p].loaded THEN AfterChecks(err) ELSE "ret"]
    /\ UNCHANGED <<store, lock, now, issued, nops, call, oldKey, emitted, lastSave, deleted>>

\* the record CreateSetupKey stores under its digest
CreateStored_plain(setupKey, plainKey) == [setupKey EXCEPT !.Key = plainKey]

CreateStored(setupKey, plainKey) == setupKey

\* CreateSetupKey from GenerateSetupKey to the substitution of the plain key
CreatePersist(p) ==
    /\ pc[p] = "persist"
    /\ call[p].op = "Create"
    /\ \E plainKey \in Secrets \ issued, saved \in BOOLEAN :
         LET r == call[p].req
             setupKey == GenerateSetupKey(r.keyName, r.keyType, r.expiresIn, r.autoGroups,
                                          r.usageLimit, r.ephemeral, plainKey, <<now, now, now>>)
             keys == Put(account[p].SetupKeys, setupKey.Key, CreateStored(setupKey, plainKey))
             returned == [setupKey EXCEPT !.Key = plainKey]
         IN  /\ issued' = issued \cup {plainKey}
             /\ IF saved
                  THEN /\ store' = keys
                       /\ emitted' = [emitted EXCEPT ![p] =
                              <<Event("SetupKeyCreated", setupKey.Id, "")>>
                              \o GroupEvents("GroupAddedToSetupKey", setupKey.Id, setupKey.AutoGroups)]
                       /\ ret' = [ret EXCEPT ![p] = [err |-> "", key |-> Some(returned)]]
                       \* setupKey is the object the loaded account holds
                       /\ account' = [account EXCEPT ![p].SetupKeys =
                                         Put(keys, setupKey.Key, returned)]
                       /\ lastSave' = None
                  ELSE /\ ret' = [ret EXCEPT ![p] = [err |-> "Internal:save", key |-> None]]
                       /\ account' = [account EXCEPT ![p].SetupKeys = keys]
                       /\ UNCHANGED <<store, emitted, lastSave>>
    /\ pc' = [pc EXCEPT ![p] = "ret"]
    /\ UNCHANGED <<lock, now, nops, call, oldKey, deleted>>

\* SaveSetupKey from the nil check to the end of validateSetupKeyAutoGroups
SaveLoad(p) ==
    /\ pc[p] = "load"
    /\ call[p].op = "Save"
    /\ IF call[p].keyToSave = None
         THEN /\ ret' = [ret EXCEPT ![p].err = "InvalidArgument:nil"]
              /\ pc' = [pc EXCEPT ![p] = "ret"]
              /\ UNCHANGED <<account, oldKey>>
         ELSE IF call[p].accountID \notin ExistingAccounts
         THEN /\ ret' = [ret EXCEPT ![p].err = "NotFound:account"]
              /\ pc' = [pc EXCEPT ![p] = "ret"]
              /\ UNCHANGED <<account, oldKey>>
         ELSE LET keyToSave == call[p].keyToSave[1]
                  found == KeysById(store, keyToSave.Id)
              IN  IF found = {}
                    THEN /\ account' = [account EXCEPT ![p] = [loaded |-> TRUE, SetupKeys |-> store]]
                         /\ ret' = [ret EXCEPT ![p].err = "NotFound:key"]
                         /\ pc' = [pc EXCEPT ![p] = "ret"]
                         /\ UNCHANGED oldKey
                    ELSE \E k \in found :     \* the first match in the map's iteration order
                         LET err == validateSetupKeyAutoGroups(keyToSave.AutoGroups)
                         IN  /\ oldKey' = [oldKey EXCEPT ![p] = Some(Copy(store[k]))]
                             /\ account' = [account EXCEPT ![p] =
                                   [loaded |-> TRUE,
                                    SetupKeys |-> [store EXCEPT ![k] = CopyReceiver(@)]]]
                             /\ ret' = [ret EXCEPT ![p].err = err]
                             /\ pc' = [pc EXCEPT ![p] = AfterChecks(err)]
    /\ UNCHANGED <<store, lock, now, issued, nops, call, emitted, lastSave, deleted>>

SaveNewKey_payload(old, keyToSave, time) ==
    [keyToSave EXCEPT !.Id = old.Id, !.Key = old.Key, !.UpdatedAt = time]

SaveNewKey_usage(old, keyToSave, time) ==
    [Copy(old) EXCEPT !.Name = keyToSave.Name,
                      !.AutoGroups = keyToSave.AutoGroups,
                      !.Revoked = keyToSave.Revoked,
                      !.UsedTimes = keyToSave.UsedTimes,
                      !.UpdatedAt = time]

SaveNewKey_key(old, keyToSave, time) ==
    [Copy(old) EXCEPT !.Key = keyToSave.Key,
                      !.Name = keyToSave.Name,
                      !.AutoGroups = keyToSave.AutoGroups,
                      !.Revoked = keyToSave.Revoked,
                      !.UpdatedAt = time]

\* newKey of SaveSetupKey
SaveNewKey(old, keyToSave, time) ==
    [Copy(old) EXCEPT !.Name = keyToSave.Name,
                      !.AutoGroups = keyToSave.AutoGroups,
                      !.Revoked = keyToSave.Revoked,
                      !.UpdatedAt = time]

SaveEvents_revoked(old, new) ==
    (IF new.Revoked THEN <<Event("SetupKeyRevoked", new.Id, "")>> ELSE << >>)
    \o GroupEvents("GroupRemovedFromSetupKey", old.Id, difference(old.AutoGroups, new.AutoGroups))
    \o GroupEvents("GroupAddedToSetupKey", old.Id, difference(new.AutoGroups, old.AutoGroups))

SaveEvents_addedFirst(old, new) ==
    (IF ~old.Revoked /\ new.Revoked
        THEN <<Event("SetupKeyRevoked", new.Id, "")>> ELSE << >>)
    \o GroupEvents("GroupAddedToSetupKey", old.Id, difference(new.AutoGroups, old.AutoGroups))
    \o GroupEvents("GroupRemovedFromSetupKey", old.Id, difference(old.AutoGroups, new.AutoGroups))

\* the events of SaveSetupKey after the account was saved, the deferred ones last
SaveEvents(old, new) ==
    (IF ~old.Revoked /\ new.Revoked
        THEN <<Event("SetupKeyRevoked", new.Id, "")>> ELSE << >>)
    \o GroupEvents("GroupRemovedFromSetupKey", old.Id, difference(old.AutoGroups, new.AutoGroups))
    \o GroupEvents("GroupAddedToSetupKey", old.Id, difference(new.AutoGroups, old.AutoGroups))

SavePersist_eventsOnFailure(p) ==
    /\ pc[p] = "persist"
    /\ call[p].op = "Save"
    /\ \E saved \in BOOLEAN :
         LET old == oldKey[p][1]
             newKey == SaveNewKey(old, call[p].keyToSave[1], now)
             keys == Put(account[p].SetupKeys, newKey.Key, newKey)
         IN  /\ account' = [account EXCEPT ![p].SetupKeys = keys]
             /\ emitted' = [emitted EXCEPT ![p] = SaveEvents(old, newKey)]
             /\ IF saved
                  THEN /\ store' = keys
                       /\ ret' = [ret EXCEPT ![p] = [err |-> "", key |-> Some(newKey)]]
                       /\ lastSave' = Some([accountID |-> call[p].accountID,
                                            keyToSave |-> call[p].keyToSave[1]])
                  ELSE /\ ret' = [ret EXCEPT ![p] = [err |-> "StoreError", key |-> None]]
                       /\ UNCHANGED <<store, lastSave>>
    /\ pc' = [pc EXCEPT ![p] = "ret"]
    /\ UNCHANGED <<lock, now, issued, nops, call, oldKey, deleted>>

\* SaveSetupKey from the construction of newKey to the deferred events
SavePersist(p) ==
    /\ pc[p] = "persist"
    /\ call[p].op = "Save"
    /\ \E saved \in BOOLEAN :
         LET old == oldKey[p][1]
             newKey == SaveNewKey(old, call[p].keyToSave[1], now)
             keys == Put(account[p].SetupKeys, newKey.Key, newKey)
         IN  /\ account' = [account EXCEPT ![p].SetupKeys = keys]
             /\ IF saved
                  THEN /\ store' = keys
                       /\ emitted' = [emitted EXCEPT ![p] = SaveEvents(old, newKey)]
                       /\ ret' = [ret EXCEPT ![p] = [err |-> "", key |-> Some(newKey)]]
                       /\ lastSave' = Some([accountID |-> call[p].accountID,
                                            keyToSave |-> call[p].keyToSave[1]])
                  ELSE /\ ret' = [ret EXCEPT ![p] = [err |-> "StoreError", key |-> None]]
                       /\ UNCHANGED <<store, emitted, lastSave>>
    /\ pc' = [pc EXCEPT ![p] = "ret"]
    /\ UNCHANGED <<lock, now, issued, nops, call, oldKey, deleted>>

Return_unlockOnSuccess(p) ==
    /\ pc[p] = "ret"
    /\ lock' = [lock EXCEPT ![call[p].accountID] = IF ret[p].err = "" THEN "" ELSE @]
    /\ pc' = [pc EXCEPT ![p] = "done"]
    /\ UNCHANGED <<store, now, issued, nops, call, account, oldKey, ret, emitted, lastSave, deleted>>

\* the deferred unlock() and the return to the caller
Return(p) ==
    /\ pc[p] = "ret"
    /\ lock' = [lock EXCEPT ![call[p].accountID] = ""]
    /\ pc' = [pc EXCEPT ![p] = "done"]
    /\ UNCHANGED <<store, now, issued, nops, call, account, oldKey, ret, emitted, lastSave, deleted>>

StartDelete(p) ==
    /\ FirstFree(p)
    /\ nops < MaxOps
    /\ \E id \in PayloadIds :
         call' = [call EXCEPT ![p] = [op |-> "Delete", accountID |-> "acc1",
                                      userID |-> "admin1", keyID |-> id]]
    /\ pc' = [pc EXCEPT ![p] = "get"]
    /\ nops' = nops + 1
    /\ UNCHANGED <<store, lock, now, issued, account, oldKey, ret, emitted, lastSave, deleted>>

Authorized_anyTenant(user, accountID) == user.admin

\* user.IsAdminOrServiceUser() && user.AccountID == accountID
Authorized(user, accountID) == user.admin /\ user.AccountID = accountID

\* the stored keys of an account, as GetAccountSetupKeys and GetSetupKeyByID read them
AccountKeys(accountID) == IF accountID \in ExistingAccounts THEN store ELSE << >>

\* DeleteSetupKey from GetUserByUserID to GetSetupKeyByID
DeleteGet(p) ==
    /\ pc[p] = "get"
    /\ call[p].op = "Delete"
    /\ LET user == Users[call[p].userID]
           found == KeysById(AccountKeys(call[p].accountID), call[p].keyID)
       IN  IF ~Authorized(user, call[p].accountID)
             THEN /\ ret' = [ret EXCEPT ![p].err = "Unauthorized"]
                  /\ pc' = [pc EXCEPT ![p] = "done"]
                  /\ UNCHANGED oldKey
             ELSE IF found = {}
             THEN /\ ret' = [ret EXCEPT ![p].err = "NotFound:key"]
                  /\ pc' = [pc EXCEPT ![p] = "done"]
                  /\ UNCHANGED oldKey
             ELSE /\ \E k \in found : oldKey' = [oldKey EXCEPT ![p] = Some(store[k])]
                  /\ pc' = [pc EXCEPT ![p] = "delete"]
                  /\ UNCHANGED ret
    /\ UNCHANGED <<store, lock, now, issued, nops, call, account, emitted, lastSave, deleted>>

\* DeleteSetupKey from Store.DeleteSetupKey to the return
DeleteExec(p) ==
    /\ pc[p] = "delete"
    /\ LET found == KeysById(AccountKeys(call[p].accountID), call[p].keyID)
       IN  IF found = {}
             THEN /\ ret' = [ret EXCEPT ![p].err = "NotFound:key"]
                  /\ UNCHANGED <<store, emitted, lastSave, deleted>>
             ELSE /\ store' = [k \in DOMAIN store \ found |-> store[k]]
                  /\ emitted' = [emitted EXCEPT ![p] =
                                    <<Event("SetupKeyDeleted", call[p].keyID, "")>>]
                  /\ lastSave' = None
                  /\ deleted' = deleted \cup found
                  /\ UNCHANGED ret
    /\ pc' = [pc EXCEPT ![p] = "done"]
    /\ UNCHANGED <<lock, now, issued, nops, call, account, oldKey>>

\* the caller has its result and forgets the call
Finish(p) ==
    /\ pc[p] = "done"
    /\ pc' = [pc EXCEPT ![p] = "idle"]
    /\ call' = [call EXCEPT ![p] = NoCall]
    /\ account' = [account EXCEPT ![p] = NoAccount]
    /\ oldKey' = [oldKey EXCEPT ![p] = None]
    /\ ret' = [ret EXCEPT ![p] = NoRet]
    /\ emitted' = [emitted EXCEPT ![p] = << >>]
    /\ UNCHANGED <<store, lock, now, issued, nops, lastSave, deleted>>

\* the enrollment flow registers a peer with the key stored under k: it holds
\* the account's write lock and stores key.IncrementUsage()
UseKey(k) ==
    /\ k \in DOMAIN store
    /\ LockFree("acc1")
    /\ nops < MaxOps
    /\ store' = [store EXCEPT ![k] = IncrementUsage(@, now)]
    /\ nops' = nops + 1
    /\ lastSave' = None
    /\ UNCHANGED <<lock, now, issued, pc, call, account, oldKey, ret, emitted, deleted>>

Tick ==
    /\ nops < MaxOps
    /\ now' = now + 1
    /\ nops' = nops + 1
    /\ UNCHANGED <<store, lock, issued, pc, call, account, oldKey, ret, emitted, lastSave, deleted>>

Next ==
    \/ \E p \in Procs : StartCreate(p)
    \/ \E p \in Procs : StartSave(p)
    \/ \E p \in Procs : StartDelete(p)
    \/ \E p \in Procs : AcquireWriteLock(p)
    \/ \E p \in Procs : CreateLoad(p)
    \/ \E p \in Procs : CreatePersist(p)
    \/ \E p \in Procs : SaveLoad(p)
    \/ \E p \in Procs : SavePersist(p)
    \/ \E p \in Procs : Return(p)
    \/ \E p \in Procs : DeleteGet(p)
    \/ \E p \in Procs : DeleteExec(p)
    \/ \E p \in Procs : Finish(p)
    \/ \E k \in DOMAIN store : UseKey(k)
    \/ Tick

Spec == Init /\ [][Next]_vars

-----------------------------------------------------------------------------
(* Queries and deletion by any user *)

\* a call of ListSetupKeys, GetSetupKey or DeleteSetupKey by any user of the
\* store, for either account
StartQuery(p) ==
    /\ FirstFree(p)
    /\ nops < MaxOps
    /\ \E op \in {"List", "Get", "Delete"}, u \in DOMAIN Users, acc \in AccountIDs,
          id \in {0, 7} :
         /\ op = "List" => id = 0
         /\ call' = [call EXCEPT ![p] = [op |-> op, accountID |-> acc,
                                         userID |-> u, keyID |-> id]]
    /\ pc' = [pc EXCEPT ![p] = "get"]
    /\ nops' = nops + 1
    /\ UNCHANGED <<store, lock, now, issued, account, oldKey, ret, emitted, lastSave, deleted>>

ListSetupKeys(p) ==
    /\ pc[p] = "get"
    /\ call[p].op = "List"
    /\ ret' = [ret EXCEPT ![p] =
                 IF ~Authorized(Users[call[p].userID], call[p].accountID)
                    THEN [err |-> "Unauthorized", key |-> None]
                    ELSE [err |-> "", key |-> None, keys |-> AccountKeys(call[p].accountID)]]
    /\ pc' = [pc EXCEPT ![p] = "done"]
    /\ UNCHANGED <<store, lock, now, issued, nops, call, account, oldKey, emitted, lastSave, deleted>>

GetSetupKey(p) ==
    /\ pc[p] = "get"
    /\ call[p].op = "Get"
    /\ LET found == KeysById(AccountKeys(call[p].accountID), call[p].keyID)
       IN  IF ~Authorized(Users[call[p].userID], call[p].accountID)
             THEN ret' = [ret EXCEPT ![p].err = "Unauthorized"]
             ELSE IF found = {}
             THEN ret' = [ret EXCEPT ![p].err = "NotFound:key"]
             ELSE \E k \in found :
                    ret' = [ret EXCEPT ![p].key =
                              Some([store[k] EXCEPT !.UpdatedAt =
                                      IF @ = ZeroTime THEN store[k].CreatedAt ELSE @])]
    /\ pc' = [pc EXCEPT ![p] = "done"]
    /\ UNCHANGED <<store, lock, now, issued, nops, call, account, oldKey, emitted, lastSave, deleted>>

\* queries and deletions by any user, while keys are created
NextQuery ==
    \/ \E p \in Procs : StartQuery(p)
    \/ \E p \in Procs : ListSetupKeys(p)
    \/ \E p \in Procs : GetSetupKey(p)
    \/ \E p \in Procs : DeleteGet(p)
    \/ \E p \in Procs : DeleteExec(p)
    \/ \E p \in Procs : StartCreate(p)
    \/ \E p \in Procs : AcquireWriteLock(p)
    \/ \E p \in Procs : CreateLoad(p)
    \/ \E p \in Procs : CreatePersist(p)
    \/ \E p \in Procs : Return(p)
    \/ \E p \in Procs : Finish(p)

SpecQuery == Init /\ [][NextQuery]_vars

-----------------------------------------------------------------------------
(* hiddenKey called on its own *)

\* plaintexts of 5 to MaxKeyLen characters of one and of two bytes
Plaintexts == UNION { [1..n -> {"A", "é"}] : n \in 5..MaxKeyLen }

\* p1 is about to call hiddenKey on a plaintext with a mask length up to MaxMask
InitHiddenKey ==
    /\ store = << >>
    /\ lock = [a \in AccountIDs |-> ""]
    /\ now = 1
    /\ issued = {}
    /\ nops = 0
    /\ pc = [p \in Procs |-> IF p = "p1" THEN "call" ELSE "idle"]
    /\ \E key \in Plaintexts, length \in 0..MaxMask :
          call = [p \in Procs |->
                    IF p = "p1" THEN [op |-> "hiddenKey", key |-> key, length |-> length]
                                ELSE NoCall]
    /\ account = [p \in Procs |-> NoAccount]
    /\ oldKey = [p \in Procs |-> None]
    /\ ret = [p \in Procs |-> NoRet]
    /\ emitted = [p \in Procs |-> << >>]
    /\ lastSave = None
    /\ deleted = {}

\* the call returns its string (in ret.key) or panics
HiddenKeyCall(p) ==
    /\ pc[p] = "call"
    /\ call[p].op = "hiddenKey"
    /\ LET result == hiddenKey(call[p].key, call[p].length)
       IN  ret' = [ret EXCEPT ![p] = IF result = Panic THEN [err |-> Panic, key |-> None]
                                                       ELSE [err |-> "", key |-> Some(result)]]
    /\ pc' = [pc EXCEPT ![p] = "done"]
    /\ UNCHANGED <<store, lock, now, issued, nops, call, account, oldKey, emitted, lastSave, deleted>>

NextHiddenKey == \E p \in Procs : HiddenKeyCall(p)

SpecHiddenKey == InitHiddenKey /\ [][NextHiddenKey]_vars

-----------------------------------------------------------------------------
(* One key from its generation on: the value object and its predicates *)

\* arguments of GenerateSetupKey: both types, no expiry and an expiry, and a
\* negative, an unlimited and a positive usage limit
KeyRequests ==
    { [keyName |-> "n1", keyType |-> t, expiresIn |-> v, autoGroups |-> <<"g1">>,
       usageLimit |-> l, ephemeral |-> FALSE] :
         t \in {SetupKeyReusable, SetupKeyOneOff}, v \in {0, 1}, l \in {-1, SetupKeyUnlimitedUsage, 1} }

\* the three readings of time.Now() in GenerateSetupKey: the clock does not go
\* back between them, and it can advance
ClockReadings == { <<1, 1, 1>>, <<1, 1, 2>>, <<1, 2, 2>>, <<2, 2, 2>> }

\* p2 has created a key (secret 1) in an empty account and holds the result;
\* the clock shows the last reading of the call
InitKey ==
    \E r \in KeyRequests, time \in ClockReadings :
       LET setupKey == GenerateSetupKey(r.keyName, r.keyType, r.expiresIn, r.autoGroups,
                                        r.usageLimit, r.ephemeral, 1, time)
       IN  /\ store = (setupKey.Key :> CreateStored(setupKey, 1))
           /\ lock = [a \in AccountIDs |-> ""]
           /\ now = time[3]
           /\ issued = {1}
           /\ nops = 0
           /\ pc = [p \in Procs |-> IF p = "p2" THEN "done" ELSE "idle"]
           /\ call = [p \in Procs |->
                       IF p = "p2" THEN [op |-> "Create", accountID |-> "acc1",
                                         userID |-> "admin1", req |-> r, time |-> time]
                                   ELSE NoCall]
           /\ account = [p \in Procs |-> NoAccount]
           /\ oldKey = [p \in Procs |-> None]
           /\ ret = [p \in Procs |->
                      IF p = "p2" THEN [err |-> "", key |-> Some([setupKey EXCEPT !.Key = 1])]
                                  ELSE NoRet]
           /\ emitted = [p \in Procs |-> << >>]
           /\ lastSave = None
           /\ deleted = {}

\* p1 saves the key, peers enroll with it and time passes
NextKey ==
    \/ \E p \in Procs : StartSave(p)
    \/ \E p \in Procs : AcquireWriteLock(p)
    \/ \E p \in Procs : SaveLoad(p)
    \/ \E p \in Procs : SavePersist(p)
    \/ \E p \in Procs : Return(p)
    \/ Finish("p1")
    \/ \E k \in DOMAIN store : UseKey(k)
    \/ Tick

SpecKey == InitKey /\ [][NextKey]_vars

-----------------------------------------------------------------------------
(* Properties *)

\* caller p has a SaveSetupKey call that was saved and has not yet been forgotten
SaveSucceeded(p) ==
    /\ pc[p] \in {"ret", "done"}
    /\ call[p].op = "Save"
    /\ ret[p].err = ""
    /\ ret[p].key # None

\* the step in which SaveSetupKey of caller p saves the account
SaveCommits(p) ==
    /\ pc[p] = "persist"
    /\ call[p].op = "Save"
    /\ pc'[p] = "ret"
    /\ ret'[p].err = ""

CreateSucceeded(p) ==
    /\ pc[p] \in {"ret", "done"}
    /\ call[p].op = "Create"
    /\ ret[p].err = ""
    /\ ret[p].key # None

\* the auto-group list of the Create or Save call c ("" for other calls)
AutoGroupsOf(c) ==
    IF c.op = "Create" THEN c.req.autoGroups
    ELSE IF c.op = "Save" /\ c.keyToSave # None THEN c.keyToSave[1].AutoGroups
    ELSE << >>

InvalidGroup(g) == g \notin DOMAIN Groups \/ Groups[g] = "All"

CountOf(events, activity) == Len(SelectSeq(events, LAMBDA e : e.activity = activity))

\* C1: two SaveSetupKey calls on the same account for keys of different ids both
\* succeed and neither loses the other's update: a Save whose payload is
\* non-nil, whose account and key exist and whose groups are valid fails only
\* when the store fails; and the step in which a Save is persisted writes the
\* payload's Name, AutoGroups and Revoked into its own record and leaves every
\* other persisted record as it is at that moment.
C1_NoLostUpdate ==
    /\ [](\A p \in Procs :
            (/\ pc[p] \in {"ret", "done"}
             /\ call[p].op = "Save"
             /\ oldKey[p] # None
             /\ validateSetupKeyAutoGroups(AutoGroupsOf(call[p])) = "")
            => /\ ret[p].err \in {"", "StoreError"}
               /\ ret[p].err = "" =>
                    /\ ret[p].key # None
                    /\ ret[p].key[1].Id = call[p].keyToSave[1].Id
                    /\ ret[p].key[1].Name = call[p].keyToSave[1].Name
                    /\ ret[p].key[1].AutoGroups = call[p].keyToSave[1].AutoGroups
                    /\ ret[p].key[1].Revoked = call[p].keyToSave[1].Revoked)
    /\ [][\A p \in Procs :
            SaveCommits(p) =>
              LET target == ret'[p].key[1].Key
              IN  /\ target \in DOMAIN store'
                  /\ store'[target] = ret'[p].key[1]
                  /\ \A k \in DOMAIN store \ {target} :
                        k \in DOMAIN store' /\ store'[k] = store[k]]_vars

\* two Saves for keys of different ids have both returned success and the
\* persisted collection holds both updates
C1_Witness ==
    /\ SaveSucceeded("p1") /\ SaveSucceeded("p2")
    /\ ret["p1"].key[1].Id # ret["p2"].key[1].Id
    /\ \A p \in Procs :
          /\ ret[p].key[1].Key \in DOMAIN store
          /\ store[ret[p].key[1].Key] = ret[p].key[1]
          /\ store[ret[p].key[1].Key].Name = call[p].keyToSave[1].Name

\* C2: no persisted record has a plaintext secret as its Key: every persisted
\* Key is the digest of a generated secret and is the collection key of its
\* record, and the record a successful CreateSetupKey returns carries the
\* secret whose digest is the Key of the record stored for it.
C2_DigestOnlyAtRest ==
    /\ \A k \in DOMAIN store :
          /\ store[k].Key \notin issued \cup Secrets
          /\ \E plain \in issued : store[k].Key = Digest(plain) /\ store[k].Id = IdOf(plain)
    /\ \A p \in Procs :
          CreateSucceeded(p) =>
            LET plain == ret[p].key[1].Key
            IN  /\ plain \in issued
                /\ Digest(plain) \in DOMAIN store =>
                      /\ store[Digest(plain)].Key = Digest(plain)
                      /\ store[Digest(plain)].Key # plain
                      /\ store[Digest(plain)].KeySecret = ret[p].key[1].KeySecret

\* a CreateSetupKey has returned the secret and the record is stored under its digest
C2_Witness ==
    \E p \in Procs :
       /\ CreateSucceeded(p)
       /\ pc[p] = "done"
       /\ Digest(ret[p].key[1].Key) \in DOMAIN store

\* C3: a stored one-off key that was used once is over-used and invalid, and
\* stays a used one-off key as long as it is stored, whatever SaveSetupKey
\* and enrollment steps follow.
C3_OneOffUsedOnce ==
    /\ [](\A k \in DOMAIN store :
            (store[k].Type = SetupKeyOneOff /\ store[k].UsedTimes >= 1)
            => IsOverUsed(store[k]) /\ ~IsValid(store[k], now))
    /\ [][\A k \in DOMAIN store \cap DOMAIN store' :
            (store[k].Type = SetupKeyOneOff /\ store[k].UsedTimes >= 1)
            => /\ store'[k].Type = SetupKeyOneOff
               /\ store'[k].UsedTimes >= store[k].UsedTimes]_vars

\* a used one-off key after a SaveSetupKey that renamed it and left it unrevoked
C3_Witness ==
    \E p \in Procs :
       /\ SaveSucceeded(p)
       /\ ret[p].key[1].Key \in DOMAIN store
       /\ LET key == store[ret[p].key[1].Key]
          IN  /\ key.Type = SetupKeyOneOff
              /\ key.UsedTimes >= 1
              /\ ~key.Revoked
              /\ key.Name = "n1"

\* C4: a caller of CreateSetupKey or SaveSetupKey holds the lock of its account
\* from before the account is loaded until the call returns, so at most one
\* such call per account is between load and persist; and when the call has
\* returned, on whatever path, the caller no longer holds the lock.
C4_LockHeld ==
    /\ \A p \in Procs :
          /\ pc[p] \in {"load", "persist", "ret"} => lock[call[p].accountID] = p
          /\ (pc[p] = "done" /\ call[p].op \in {"Create", "Save"})
                => lock[call[p].accountID] # p
    /\ \A p, q \in Procs :
          (/\ p # q
           /\ pc[p] \in {"load", "persist", "ret"}
           /\ pc[q] \in {"load", "persist", "ret"})
          => call[p].accountID # call[q].accountID
    /\ \A a \in AccountIDs :
          lock[a] # "" => pc[lock[a]] \in {"load", "persist", "ret"} /\ call[lock[a]].accountID = a

\* one caller is about to persist while the other waits for the same lock
C4_Witness ==
    \E p, q \in Procs :
       /\ pc[p] = "persist"
       /\ pc[q] = "lock"
       /\ call[q].accountID = call[p].accountID

\* C5: the step that persists a SaveSetupKey writes a record that has the
\* payload's Name, AutoGroups and Revoked and UpdatedAt = now, and has every
\* other field as in the record it replaces, whatever the payload carries in
\* those fields; every other persisted record is left as it is.
FrameFields(key) ==
    <<key.Id, key.AccountID, key.Key, key.KeySecret, key.Type, key.CreatedAt,
      key.ExpiresAt, key.UsedTimes, key.LastUsed, key.UsageLimit, key.Ephemeral>>

C5_SaveFrame ==
    [][\A p \in Procs :
         SaveCommits(p) =>
           LET old == oldKey[p][1]
               desired == call[p].keyToSave[1]
               target == old.Key
           IN  /\ target \in DOMAIN store'
               /\ store'[target].Name = desired.Name
               /\ store'[target].AutoGroups = desired.AutoGroups
               /\ store'[target].Revoked = desired.Revoked
               /\ store'[target].UpdatedAt = now
               /\ FrameFields(store'[target]) = FrameFields(old)
               /\ target \in DOMAIN store =>
                     FrameFields(store'[target]) = FrameFields(store[target])
               /\ \A k \in DOMAIN store \ {target} :
                     k \in DOMAIN store' /\ store'[k] = store[k]]_vars

\* a Save of a used key, with another key in the collection, has been persisted
C5_Witness ==
    \E p \in Procs :
       /\ SaveSucceeded(p)
       /\ pc[p] = "ret"
       /\ oldKey[p][1].UsedTimes >= 1
       /\ FrameFields(ret[p].key[1]) # FrameFields(call[p].keyToSave[1])
       /\ Cardinality(DOMAIN store) >= 2

\* C6: a CreateSetupKey or SaveSetupKey whose auto-group list has an invalid id
\* and that reaches the validation (the account exists and, for Save, the key
\* is found) fails with the error of the first invalid id of the list: NotFound
\* for an id that is no group of the account, InvalidArgument for the group
\* All; it returns no record and emits no event, and no step of such a call
\* changes the persisted keys.
FirstInvalid(groups) ==
    LET bad == {i \in 1..Len(groups) : InvalidGroup(groups[i])}
    IN  IF bad = {} THEN 0 ELSE CHOOSE i \in bad : \A j \in bad : i <= j

ExpectedGroupError(groups) ==
    IF groups[FirstInvalid(groups)] \notin DOMAIN Groups
       THEN "NotFound:group" ELSE "InvalidArgument:All"

ReachedValidation(p) ==
    /\ account[p].loaded
    /\ call[p].op = "Save" => oldKey[p] # None

C6_InvalidGroupsRejected ==
    /\ [](\A p \in Procs :
            (/\ call[p].op \in {"Create", "Save"}
             /\ FirstInvalid(AutoGroupsOf(call[p])) # 0)
            => /\ emitted[p] = << >>
               /\ ret[p].key = None
               /\ (pc[p] \in {"ret", "done"} /\ ReachedValidation(p))
                     => ret[p].err = ExpectedGroupError(AutoGroupsOf(call[p])))
    /\ [][\A p \in Procs :
            (/\ pc'[p] # pc[p]
             /\ call[p].op \in {"Create", "Save"}
             /\ FirstInvalid(AutoGroupsOf(call[p])) # 0)
            => store' = store]_vars

\* a Save naming an existing key failed on the group All, which precedes an
\* unknown id in its list
C6_Witness ==
    \E p \in Procs :
       /\ pc[p] = "done"
       /\ call[p].op = "Save"
       /\ oldKey[p] # None
       /\ ret[p].err = "InvalidArgument:All"
       /\ \E i \in 1..Len(AutoGroupsOf(call[p])) : AutoGroupsOf(call[p])[i] \notin DOMAIN Groups

\* C7: a successful SaveSetupKey emits one SetupKeyRevoked event when Revoked
\* goes from false to true and none otherwise; when the desired AutoGroups are
\* the stored ones as a set, it emits no group-added and no group-removed event.
C7_RevokedEvent ==
    \A p \in Procs :
       SaveSucceeded(p) =>
         LET old == oldKey[p][1]
             new == ret[p].key[1]
         IN  /\ CountOf(emitted[p], "SetupKeyRevoked")
                   = IF ~old.Revoked /\ new.Revoked THEN 1 ELSE 0
             /\ Range(old.AutoGroups) = Range(new.AutoGroups)
                   => /\ CountOf(emitted[p], "GroupAddedToSetupKey") = 0
                      /\ CountOf(emitted[p], "GroupRemovedFromSetupKey") = 0

\* a Save revoked a key and gave it the same groups in another order: the
\* revoked event is all it emitted
C7_Witness ==
    \E p \in Procs :
       /\ SaveSucceeded(p)
       /\ ~oldKey[p][1].Revoked /\ ret[p].key[1].Revoked
       /\ oldKey[p][1].AutoGroups # ret[p].key[1].AutoGroups
       /\ Range(oldKey[p][1].AutoGroups) = Range(ret[p].key[1].AutoGroups)
       /\ Len(emitted[p]) = 1

\* C8: a SaveSetupKey that follows a successful SaveSetupKey with the same
\* payload on the same account, with no write to the stored keys in between,
\* emits no event.
C8_SaveIdempotent ==
    [][\A p \in Procs :
         (/\ SaveCommits(p)
          /\ lastSave = Some([accountID |-> call[p].accountID,
                              keyToSave |-> call[p].keyToSave[1]]))
         => emitted'[p] = << >>]_vars

\* the same, for a payload whose Id only one stored record has
SaveIdempotentUniqueId ==
    [][\A p \in Procs :
         (/\ SaveCommits(p)
          /\ Cardinality(KeysById(store, call[p].keyToSave[1].Id)) = 1
          /\ lastSave = Some([accountID |-> call[p].accountID,
                              keyToSave |-> call[p].keyToSave[1]]))
         => emitted'[p] = << >>]_vars

\* C9: every stored one-off key has UsageLimit 1, and the limit that
\* IsOverUsed applies to it is 1: it is over-used from the first use on.
C9_OneOffLimit ==
    \A k \in DOMAIN store :
       store[k].Type = SetupKeyOneOff =>
          /\ store[k].UsageLimit = 1
          /\ \A n \in 0..2 :
                IsOverUsed([store[k] EXCEPT !.UsedTimes = n]) = (n >= 1)

\* a one-off key requested with usageLimit 2 is stored after a Save whose
\* payload carried UsageLimit 5
C9_Witness ==
    \E p \in Procs :
       /\ SaveSucceeded(p)
       /\ call[p].keyToSave[1].UsageLimit = 5
       /\ ret[p].key[1].Key \in DOMAIN store
       /\ store[ret[p].key[1].Key].Type = SetupKeyOneOff
       /\ store[ret[p].key[1].Key].UsageLimit = 1

\* C10: IsOverUsed(key) = (effectiveLimit > 0 /\ UsedTimes >= effectiveLimit)
\* with effectiveLimit 1 for a one-off key and UsageLimit otherwise, for every
\* stored key, also with a negative, zero or positive limit put in place of
\* its UsageLimit; a reusable key with UsageLimit 0 is never over-used.
EffectiveLimit(key) == IF key.Type = SetupKeyOneOff THEN 1 ELSE key.UsageLimit

C10_IsOverUsed ==
    \A k \in DOMAIN store :
       /\ \A l \in {-1, 0, store[k].UsedTimes, store[k].UsedTimes + 1} :
             LET key == [Type |-> store[k].Type, UsedTimes |-> store[k].UsedTimes,
                         UsageLimit |-> l]
             IN  IsOverUsed(key)
                    = (EffectiveLimit(key) > 0 /\ key.UsedTimes >= EffectiveLimit(key))
       /\ IsOverUsed(store[k])
             = (EffectiveLimit(store[k]) > 0 /\ store[k].UsedTimes >= EffectiveLimit(store[k]))
       /\ (store[k].Type = SetupKeyReusable /\ store[k].UsageLimit = SetupKeyUnlimitedUsage)
             => ~IsOverUsed(store[k])

\* an unlimited reusable key that was used more than once
C10_Witness ==
    \E k \in DOMAIN store :
       /\ store[k].Type = SetupKeyReusable
       /\ store[k].UsageLimit = SetupKeyUnlimitedUsage
       /\ store[k].UsedTimes >= 2

-----------------------------------------------------------------------------
(* Properties of one key (SpecKey) *)

\* t is not after the key's expiry, read off the fields
Unexpired(key, t) == key.ExpiresAt = ZeroTime \/ t <= key.ExpiresAt

\* the key has uses left, read off the fields
UnderLimit(key) ==
    IF key.Type = SetupKeyOneOff THEN key.UsedTimes < 1
    ELSE key.UsageLimit <= 0 \/ key.UsedTimes < key.UsageLimit

\* C11: for every stored key and every time t, IsValid is true exactly when
\* the key is not revoked, t is not after its expiry and it has uses left; a
\* revoked key is invalid; and the key returned by a SaveSetupKey that takes
\* Revoked from true to false is valid exactly when it is unexpired and under
\* its limit.
C11_IsValid ==
    /\ [](\A k \in DOMAIN store : \A t \in 0..(now + 1) :
            /\ IsValid(store[k], t)
                  = (~store[k].Revoked /\ Unexpired(store[k], t) /\ UnderLimit(store[k]))
            /\ store[k].Revoked => ~IsValid(store[k], t))
    /\ [][\A p \in Procs :
            (SaveCommits(p) /\ oldKey[p][1].Revoked /\ ~ret'[p].key[1].Revoked)
            => IsValid(ret'[p].key[1], now')
                  = (Unexpired(oldKey[p][1], now') /\ UnderLimit(oldKey[p][1]))]_vars

\* a Save has set Revoked back to false on a key that is expired or over-used:
\* the key it returns is invalid
C11_Witness ==
    \E p \in Procs :
       /\ SaveSucceeded(p)
       /\ oldKey[p][1].Revoked
       /\ ~ret[p].key[1].Revoked
       /\ ~IsValid(ret[p].key[1], now)

\* C12: of the key a CreateSetupKey has returned, as long as it is stored:
\* requested with validFor = 0 it is expired at no time; requested with a
\* positive validFor its ExpiresAt is the clock reading of the call plus
\* validFor, and it is expired at exactly the times after ExpiresAt. No step,
\* SaveSetupKey included, changes the ExpiresAt of a stored key.
C12_Expiry ==
    /\ [](\A p \in Procs :
            (CreateSucceeded(p) /\ Digest(ret[p].key[1].Key) \in DOMAIN store) =>
               LET key == store[Digest(ret[p].key[1].Key)]
                   validFor == call[p].req.expiresIn
                   created == call[p].time[1]
               IN  /\ validFor = 0 => \A t \in created..(now + 2) : ~IsExpired(key, t)
                   /\ validFor > 0 =>
                         /\ key.ExpiresAt = created + validFor
                         /\ \A t \in created..(now + 2) :
                               IsExpired(key, t) = (t > created + validFor))
    /\ [][\A k \in DOMAIN store \cap DOMAIN store' :
            store'[k].ExpiresAt = store[k].ExpiresAt]_vars

\* a key created with a positive validFor, whose CreatedAt is a later reading
\* of the clock than the one its expiry was computed from, has been saved after
\* its expiry and is expired
C12_Witness ==
    /\ CreateSucceeded("p2")
    /\ call["p2"].req.expiresIn > 0
    /\ call["p2"].time[1] < call["p2"].time[2]
    /\ SaveSucceeded("p1")
    /\ ret["p1"].key[1].UpdatedAt > ret["p1"].key[1].ExpiresAt
    /\ ret["p1"].key[1].Key \in DOMAIN store
    /\ IsExpired(store[ret["p1"].key[1].Key], now)

-----------------------------------------------------------------------------
(* Properties of queries and deletion (SpecQuery) *)

\* the caller of c is no admin or service user, or belongs to another account
\* than the one c names
Unprivileged(c) ==
    \/ ~Users[c.userID].admin
    \/ Users[c.userID].AccountID # c.accountID

\* C13: a ListSetupKeys, GetSetupKey or DeleteSetupKey call of an unprivileged
\* caller returns the Unauthorized error and nothing else, emits no event, never
\* gets to the deletion, and no step of it changes the stored keys.
C13_Unauthorized ==
    /\ [](\A p \in Procs :
            (call[p].op \in {"List", "Get", "Delete"} /\ Unprivileged(call[p])) =>
               /\ emitted[p] = << >>
               /\ pc[p] \in {"get", "done"}
               /\ pc[p] = "get" => ret[p] = NoRet
               /\ pc[p] = "done" => ret[p] = [err |-> "Unauthorized", key |-> None])
    /\ [][\A p \in Procs :
            (/\ call[p].op \in {"List", "Get", "Delete"}
             /\ Unprivileged(call[p])
             /\ pc'[p] # pc[p])
            => store' = store /\ deleted' = deleted]_vars

\* an admin of another account has asked for an existing key of acc1, a user
\* of acc1 without the admin role has asked to delete it, and both were refused
C13_Witness ==
    \E p, q \in Procs :
       /\ pc[p] = "done" /\ pc[q] = "done"
       /\ call[p].op = "Get" /\ call[p].userID = "admin2" /\ call[p].accountID = "acc1"
       /\ call[q].op = "Delete" /\ call[q].userID = "user1" /\ call[q].accountID = "acc1"
       /\ KeysById(store, call[p].keyID) # {}
       /\ KeysById(store, call[q].keyID) # {}
       /\ ret[p].err = "Unauthorized" /\ ret[q].err = "Unauthorized"

-----------------------------------------------------------------------------
(* Properties of deletion among the other calls (Spec) *)

\* the step in which DeleteSetupKey of caller p returns success
DeleteSucceeds(p) ==
    /\ pc[p] = "delete"
    /\ pc'[p] = "done"
    /\ ret'[p].err = ""

\* C14: a DeleteSetupKey of an authorized user for an id that no stored key
\* has, at its lookup or at its deletion, returns NotFound and emits no event;
\* and a DeleteSetupKey that returns success removes records that no earlier
\* DeleteSetupKey has removed with success and emits one SetupKeyDeleted event,
\* so that each record is deleted with success and announced at most once.
C14_DeleteOnce ==
    /\ [](\A p \in Procs :
            (call[p].op = "Delete" /\ pc[p] = "done" /\ ret[p].err # "")
            => emitted[p] = << >>)
    /\ [][\A p \in Procs :
            (/\ call[p].op = "Delete"
             /\ pc[p] \in {"get", "delete"}
             /\ pc'[p] # pc[p]
             /\ Authorized(Users[call[p].userID], call[p].accountID)
             /\ KeysById(store, call[p].keyID) = {})
            => /\ pc'[p] = "done"
               /\ ret'[p].err = "NotFound:key"
               /\ emitted'[p] = << >>
               /\ store' = store]_vars
    /\ [][\A p \in Procs :
            DeleteSucceeds(p) =>
               /\ DOMAIN store \ DOMAIN store' # {}
               /\ (DOMAIN store \ DOMAIN store') \cap deleted = {}
               /\ CountOf(emitted'[p], "SetupKeyDeleted") = 1]_vars

-----------------------------------------------------------------------------
(* Properties of hiddenKey (SpecHiddenKey) *)

\* the UTF-8 encoding of the first n characters of s
Encoded(s, n) == BytesFrom(SubSeq(s, 1, n), 1, ByteLen(SubSeq(s, 1, n)))

\* C15: hiddenKey called on a plaintext of at least 5 characters returns the
\* first 5 characters of the plaintext followed by mask characters only; the
\* mask characters are at most (characters of the plaintext - 5), so that the
\* preview has no more characters than the plaintext.
C15_HiddenKey ==
    \A p \in Procs :
       (pc[p] = "done" /\ call[p].op = "hiddenKey" /\ Len(call[p].key) >= 5) =>
          /\ ret[p].err = ""
          /\ ret[p].key # None
          /\ LET key == call[p].key
                 preview == ret[p].key[1]
                 first == Encoded(key, 5)
                 masks == Len(preview) - Len(first)
             IN  /\ masks >= 0
                 /\ SubSeq(preview, 1, Len(first)) = first
                 /\ \A i \in (Len(first) + 1)..Len(preview) : preview[i] = "*"
                 /\ masks <= Len(key) - 5
                 /\ 5 + masks <= Len(key)

\* C16: a CreateSetupKey or SaveSetupKey has emitted events only if it has
\* saved the account: it returns no error, its events appear in the step that
\* saves, and the record it returns is then stored. The step in which the
\* store's save fails returns Internal from Create and the store's own error
\* from Save, returns no record, emits nothing and leaves the stored keys as
\* they are; and no other step of a Create or Save changes the stored keys.
C16_NoPartialCommit ==
    /\ [](\A p \in Procs :
            (call[p].op \in {"Create", "Save"} /\ emitted[p] # << >>)
            => pc[p] \in {"ret", "done"} /\ ret[p].err = "" /\ ret[p].key # None)
    /\ [][\A p \in Procs :
            (call[p].op \in {"Create", "Save"} /\ pc[p] = "persist" /\ pc'[p] = "ret") =>
               IF ret'[p].err # ""
                  THEN /\ ret'[p].err = IF call[p].op = "Create" THEN "Internal:save"
                                                                 ELSE "StoreError"
                       /\ ret'[p].key = None
                       /\ emitted'[p] = << >>
                       /\ store' = store
                  ELSE LET k == IF call[p].op = "Create" THEN Digest(ret'[p].key[1].Key)
                                                         ELSE ret'[p].key[1].Key
                       IN  k \in DOMAIN store' /\ store'[k].Name = ret'[p].key[1].Name]_vars
    /\ [][\A p \in Procs :
            (/\ call[p].op \in {"Create", "Save"}
             /\ pc'[p] # pc[p]
             /\ pc[p] \in {"lock", "load", "ret"})
            => store' = store /\ emitted'[p] = emitted[p]]_vars

\* the store has failed a Save that would have revoked a key and changed its
\* groups, and a Create with groups
C16_Witness ==
    \E p, q \in Procs :
       /\ pc[p] \in {"ret", "done"}
       /\ call[p].op = "Save"
       /\ ret[p].err = "StoreError"
       /\ SaveEvents(oldKey[p][1], call[p].keyToSave[1]) # << >>
       /\ call[p].keyToSave[1].Revoked /\ ~oldKey[p][1].Revoked
       /\ pc[q] = "done"
       /\ call[q].op = "Create"
       /\ ret[q].err = "Internal:save"
       /\ call[q].req.autoGroups # << >>

\* positions of the events of one activity in a sequence of events
Positions(events, activity) == {i \in 1..Len(events) : events[i].activity = activity}

C18_CopyOnWrite ==
    [][\A p \in Procs :
         (pc[p] = "load" /\ call[p].op = "Save" /\ oldKey'[p] # None) =>
            \A k \in DOMAIN store :
               k \in DOMAIN account'[p].SetupKeys /\ account'[p].SetupKeys[k] = store[k]]_vars

\* C19: every persisted record is stored under its own Key; and as long as no
\* DeleteSetupKey has removed a record, the step that persists a SaveSetupKey
\* replaces the entry of an existing collection key: the collection keys, and
\* so the number of records, are the same before and after it.
C19_ReplaceInPlace ==
    /\ [](\A k \in DOMAIN store : store[k].Key = k)
    /\ [][\A p \in Procs :
            (SaveCommits(p) /\ deleted = {}) =>
               /\ ret'[p].key[1].Key \in DOMAIN store
               /\ DOMAIN store' = DOMAIN store
               /\ Cardinality(DOMAIN store') = Cardinality(DOMAIN store)]_vars

\* a Save of the key that a CreateSetupKey had added has been persisted in a
\* collection of two records
C19_Witness ==
    \E p \in Procs :
       /\ SaveSucceeded(p)
       /\ deleted = {}
       /\ ret[p].key[1].Key # Digest(0)
       /\ ret[p].key[1].Key \in DOMAIN store
       /\ store[ret[p].key[1].Key] = ret[p].key[1]
       /\ Cardinality(DOMAIN store) = 2

\* C20: when no call is in progress, no record that a DeleteSetupKey has
\* removed with success is in the persisted collection.
C20_DeletedStaysDeleted ==
    (\A p \in Procs : pc[p] \in {"idle", "done"}) => deleted \cap DOMAIN store = {}

====
